---- MODULE Spec2Model ----
(***************************************************************************)
(* viewdf: a command line tool that loads one table (CSV/TSV text or a     *)
(* pickled DataFrame), prints inspections of it and optionally writes it   *)
(* back as a pickle.  The model follows src/viewdf.py statement by         *)
(* statement.  Text that the program inspects character by character       *)
(* (paths, --slice expressions) is a sequence of one-character strings.    *)
(***************************************************************************)
EXTENDS Integers, Sequences, FiniteSets, TLC

(* ---------------------------------------------------------------------- *)
(* Bounds of the model                                                     *)
(* ---------------------------------------------------------------------- *)

\* largest row count of the table behind data.csv in the slice specification
MaxRows == 10

\* largest row count of the table behind data.csv in the full-run specification
MaxMainRows == 2

\* largest number of colon-separated fields in a generated --slice expression
MaxFields == 4

(* ---------------------------------------------------------------------- *)
(* Python values                                                           *)
(* ---------------------------------------------------------------------- *)

\* Optional[int] / Optional[str]: None is the empty tuple, a value v is <<v>>
None == <<>>

Some(v) == <<v>>

Min(a, b) == IF a < b THEN a ELSE b

Max(a, b) == IF a > b THEN a ELSE b

Digits == {"0", "1", "2", "3", "4", "5", "6", "7", "8", "9"}

DigitVal(c) ==
  CASE c = "0" -> 0 [] c = "1" -> 1 [] c = "2" -> 2 [] c = "3" -> 3
    [] c = "4" -> 4 [] c = "5" -> 5 [] c = "6" -> 6 [] c = "7" -> 7
    [] c = "8" -> 8 [] c = "9" -> 9

\* str.endswith
endswith(s, suffix) ==
  /\ Len(s) >= Len(suffix)
  /\ SubSeq(s, Len(s) - Len(suffix) + 1, Len(s)) = suffix

\* str.split(":") : the fields between the colons, empty fields included
RECURSIVE split(_)
split(s) ==
  IF \A i \in 1..Len(s) : s[i] # ":"
  THEN <<s>>
  ELSE LET k == CHOOSE i \in 1..Len(s) :
                   s[i] = ":" /\ \A j \in 1..(i - 1) : s[j] # ":"
       IN  <<SubSeq(s, 1, k - 1)>> \o split(SubSeq(s, k + 1, Len(s)))

\* value of a string of decimal digits
RECURSIVE DecimalValue(_)
DecimalValue(ds) ==
  IF ds = <<>> THEN 0
  ELSE 10 * DecimalValue(SubSeq(ds, 1, Len(ds) - 1)) + DigitVal(ds[Len(ds)])

\* int(p) succeeds, for p made of the characters "-0123456789" only:
\* an optional single leading minus sign followed by at least one digit
int_ok(p) ==
  LET body == IF p # <<>> /\ p[1] = "-" THEN Tail(p) ELSE p
  IN  /\ body # <<>>
      /\ \A i \in 1..Len(body) : body[i] \in Digits

\* int(p) when it succeeds
int(p) ==
  IF p[1] = "-" THEN 0 - DecimalValue(Tail(p)) ELSE DecimalValue(p)

(* ---------------------------------------------------------------------- *)
(* Tables (pandas DataFrame) and files                                     *)
(* ---------------------------------------------------------------------- *)

\* a DataFrame: ordered column names, one dtype per column, rows by position
DataFrame(columns, dtypes, rows) ==
  [columns |-> columns, dtypes |-> dtypes, rows |-> rows]

\* the table with n rows that data.csv parses to; row at position i holds i
MkTable(n) ==
  DataFrame(<<"a", "b">>, <<"int64", "int64">>,
            [i \in 1..n |-> <<i - 1, 100 + (i - 1)>>])

\* file contents.  fmt "text": delimited text, table is what it parses to
\* (None for text that has no header to parse); fmt "pickle": a pickled
\* object of the named type; fmt "absent": no such file
Absent == [fmt |-> "absent", type |-> "", table |-> None]

TextFile(tbl) == [fmt |-> "text", type |-> "", table |-> tbl]

PickleFile(type, tbl) == [fmt |-> "pickle", type |-> type, table |-> tbl]

data_csv == <<"d", ".", "c", "s", "v">>

gone_csv == <<"g", ".", "c", "s", "v">>

junk_pkl == <<"j", ".", "p", "k", "l">>

list_pkl == <<"l", ".", "p", "k", "l">>

out_pkl == <<"o", ".", "p", "k", "l">>

out_bin == <<"o", ".", "b", "i", "n">>

nodir_out_pkl == <<"n", "/", "o", ".", "p", "k", "l">>

Paths == {data_csv, gone_csv, junk_pkl, list_pkl, out_pkl, out_bin, nodir_out_pkl}

dot_pkl == <<".", "p", "k", "l">>

\* the file system a run starts from: data.csv holds a table of n rows,
\* junk.pkl holds plain text, list.pkl holds a pickled list
InitialFiles(n) ==
  [p \in Paths |->
     CASE p = data_csv -> TextFile(Some(MkTable(n)))
       [] p = junk_pkl -> TextFile(Some(DataFrame(<<"not a pickle file">>, <<"object">>, <<>>)))
       [] p = list_pkl -> PickleFile("list", None)
       [] OTHER -> Absent]

\* pd.read_pickle: the pickled object, or an exception
read_pickle(file) ==
  IF file.fmt = "pickle"
  THEN [raised |-> FALSE, exc |-> "", type |-> file.type, table |-> file.table]
  ELSE [raised |-> TRUE,
        exc |-> IF file.fmt = "absent" THEN "FileNotFoundError" ELSE "UnpicklingError",
        type |-> "", table |-> None]

\* pd.read_csv: the parsed table, or an exception
read_csv(file) ==
  IF file.fmt = "text" /\ file.table # None
  THEN [raised |-> FALSE, exc |-> "", type |-> "DataFrame", table |-> file.table]
  ELSE [raised |-> TRUE,
        exc |-> CASE file.fmt = "absent" -> "FileNotFoundError"
                  [] file.fmt = "pickle" -> "UnicodeDecodeError"
                  [] OTHER -> "EmptyDataError",
        type |-> "", table |-> None]

\* load_dataframe without the isinstance test on the unpickled object
load_dataframe_unchecked(files, path) ==
  LET got == IF endswith(path, dot_pkl) THEN read_pickle(files[path])
             ELSE read_csv(files[path])
  IN  IF got.raised
      THEN [raised |-> TRUE, text |-> "Failed to read", path |-> path,
            detail |-> got.exc, kind |-> "", df |-> None]
      ELSE [raised |-> FALSE, text |-> "", path |-> path, detail |-> "",
            kind |-> "",
            df |-> IF got.table = None THEN Some([columns |-> <<>>, dtypes |-> <<>>, rows |-> <<>>])
                   ELSE got.table]

\* load_dataframe(path, sep): the DataFrame, or RuntimeError("Failed to read ...")
load_dataframe(files, path) ==
  LET got == IF endswith(path, dot_pkl) THEN read_pickle(files[path])
             ELSE read_csv(files[path])
  IN  IF got.raised
      THEN [raised |-> TRUE, text |-> "Failed to read", path |-> path,
            detail |-> got.exc, kind |-> "", df |-> None]
      ELSE IF endswith(path, dot_pkl) /\ got.type # "DataFrame"
      THEN [raised |-> TRUE, text |-> "Failed to read", path |-> path,
            detail |-> "Pickle contains, not a DataFrame", kind |-> got.type,
            df |-> None]
      ELSE [raised |-> FALSE, text |-> "", path |-> path, detail |-> "",
            kind |-> "", df |-> got.table]

\* DataFrame.to_pickle(dest) can create the file: its directory exists
\* (only the working directory does)
can_write(dest) == \A i \in 1..Len(dest) : dest[i] # "/"

\* the object DataFrame.to_pickle stores
to_pickle(frame) == PickleFile("DataFrame", Some(frame))

\* df.head(n)
head(frame, n) ==
  SubSeq(frame.rows, 1,
         IF n >= 0 THEN Min(n, Len(frame.rows)) ELSE Max(Len(frame.rows) + n, 0))

\* df.tail(n)
tail(frame, n) ==
  IF n = 0 THEN <<>>
  ELSE SubSeq(frame.rows,
              IF n > 0 THEN Max(Len(frame.rows) - n, 0) + 1 ELSE Min(0 - n, Len(frame.rows)) + 1,
              Len(frame.rows))

\* df.sample(n=n) raises ValueError: negative n, or n larger than the table
sample_raises(frame, n) == n < 0 \/ n > Len(frame.rows)

\* df.sample(n=n): every choice of n distinct row positions, in any order
sample_choices(frame, n) ==
  {s \in [1..n -> 0..(Len(frame.rows) - 1)] :
     \A i, j \in 1..n : i # j => s[i] # s[j]}

(* ---------------------------------------------------------------------- *)
(* --slice: parsing and positional selection                               *)
(* ---------------------------------------------------------------------- *)

SliceAlphabet == Digits \cup {"-", ":"}

\* make_slice with a single field taken as the start
make_slice_start(slice_parts) ==
  IF Len(slice_parts) = 1
  THEN [start |-> slice_parts[1], stop |-> None, step |-> None]
  ELSE IF Len(slice_parts) = 2
  THEN [start |-> slice_parts[1], stop |-> slice_parts[2], step |-> None]
  ELSE [start |-> slice_parts[1], stop |-> slice_parts[2], step |-> slice_parts[3]]

\* make_slice that drops the step field
make_slice_no_step(slice_parts) ==
  IF Len(slice_parts) = 1
  THEN [start |-> None, stop |-> slice_parts[1], step |-> None]
  ELSE [start |-> slice_parts[1], stop |-> slice_parts[2], step |-> None]

\* the slice object built from the parsed fields: slice(stop),
\* slice(start, stop) or slice(start, stop, step)
make_slice(slice_parts) ==
  IF Len(slice_parts) = 1
  THEN [start |-> None, stop |-> slice_parts[1], step |-> None]
  ELSE IF Len(slice_parts) = 2
  THEN [start |-> slice_parts[1], stop |-> slice_parts[2], step |-> None]
  ELSE [start |-> slice_parts[1], stop |-> slice_parts[2], step |-> slice_parts[3]]

\* fields converted to int or None (every non-empty field passes int_ok)
to_slice_parts(parts) ==
  [i \in 1..Len(parts) |-> IF parts[i] = <<>> THEN None ELSE Some(int(parts[i]))]

\* range(start, stop, step) as a list, step non-zero
RECURSIVE range(_, _, _)
range(start, stop, step) ==
  IF (step > 0 /\ start >= stop) \/ (step < 0 /\ start <= stop)
  THEN <<>>
  ELSE <<start>> \o range(start + step, stop, step)

\* one bound of a slice against length n: None takes the default, a negative
\* value counts from the end, and the result is clamped to [lower, upper]
clamp_bound(bound, n, lower, upper, default) ==
  IF bound = None THEN default
  ELSE IF bound[1] < 0 THEN Max(bound[1] + n, lower)
  ELSE Min(bound[1], upper)

\* the row positions df.iloc[sl] selects from n rows (sl.step is not 0)
slice_positions(sl, n) ==
  LET step  == IF sl.step = None THEN 1 ELSE sl.step[1]
      lower == IF step < 0 THEN 0 - 1 ELSE 0
      upper == IF step < 0 THEN n - 1 ELSE n
      start == clamp_bound(sl.start, n, lower, upper, IF step < 0 THEN upper ELSE lower)
      stop  == clamp_bound(sl.stop, n, lower, upper, IF step < 0 THEN lower ELSE upper)
  IN  range(start, stop, step)

\* df.iloc[sl] for the slice a well-formed expression denotes
iloc(frame, s) ==
  slice_positions(make_slice(to_slice_parts(split(s))), Len(frame.rows))

NoError == [raised |-> FALSE, text |-> "", field |-> <<>>]

ValueError(text, field) == [raised |-> TRUE, text |-> text, field |-> field]

\* slice_error with bounds outside the table reported as an error
slice_error_strict(s, f) ==
  IF \E i \in 1..Len(s) : s[i] \notin SliceAlphabet
  THEN ValueError("Slice must contain only digits, minus signs, and colons", <<>>)
  ELSE LET parts == split(s) IN
    IF Len(parts) > 3
    THEN ValueError("Slice must be in format start:stop:step", <<>>)
    ELSE IF \E i \in 1..Len(parts) : parts[i] # <<>> /\ ~int_ok(parts[i])
    THEN ValueError("Invalid slice value", <<>>)
    ELSE IF make_slice(to_slice_parts(parts)).step = Some(0)
    THEN ValueError("slice step cannot be zero", <<>>)
    ELSE IF \E b \in {make_slice(to_slice_parts(parts)).start,
                      make_slice(to_slice_parts(parts)).stop} :
              b # None /\ (b[1] > Len(f.rows) \/ b[1] < 0 - Len(f.rows))
    THEN ValueError("index out of bounds", <<>>)
    ELSE NoError

\* slice_error without the test on the number of fields
slice_error_any_fields(s, f) ==
  IF \E i \in 1..Len(s) : s[i] \notin SliceAlphabet
  THEN ValueError("Slice must contain only digits, minus signs, and colons", <<>>)
  ELSE LET parts == split(s) IN
    IF \E i \in 1..Len(parts) : parts[i] # <<>> /\ ~int_ok(parts[i])
    THEN ValueError("Invalid slice value", <<>>)
    ELSE IF make_slice(to_slice_parts(parts)).step = Some(0)
    THEN ValueError("slice step cannot be zero", <<>>)
    ELSE NoError

\* the exception, if any, raised inside the try block of the --slice branch
\* (lines 158-192) for expression s and DataFrame f; df.iloc raises for step 0
slice_error(s, f) ==
  IF \E i \in 1..Len(s) : s[i] \notin SliceAlphabet
  THEN ValueError("Slice must contain only digits, minus signs, and colons", <<>>)
  ELSE LET parts == split(s) IN
    IF Len(parts) > 3
    THEN ValueError("Slice must be in format start:stop:step", <<>>)
    ELSE IF \E i \in 1..Len(parts) : parts[i] # <<>> /\ ~int_ok(parts[i])
    THEN LET k == CHOOSE i \in 1..Len(parts) :
                    /\ parts[i] # <<>> /\ ~int_ok(parts[i])
                    /\ \A j \in 1..(i - 1) : parts[j] = <<>> \/ int_ok(parts[j])
         IN  ValueError("Invalid slice value", parts[k])
    ELSE IF make_slice(to_slice_parts(parts)).step = Some(0)
    THEN ValueError("slice step cannot be zero", <<>>)
    ELSE NoError

(* ---------------------------------------------------------------------- *)
(* Command line                                                            *)
(* ---------------------------------------------------------------------- *)

\* an optional flag on the command line: not given, given bare, given with a value
NotGiven == [given |-> FALSE, value |-> None]

Bare == [given |-> TRUE, value |-> None]

With(v) == [given |-> TRUE, value |-> Some(v)]

\* the values args.describe can hold: None, True, False or a str
PyNone == [kind |-> "None", val |-> ""]

PyTrue == [kind |-> "True", val |-> ""]

PyFalse == [kind |-> "False", val |-> ""]

PyStr(v) == [kind |-> "str", val |-> v]

\* bool(x) of an args.describe value
describe_truthy(d) == d = PyTrue \/ (d.kind = "str" /\ d.val # "")

\* bool(x) of an Optional[str]
str_truthy(x) == x # None /\ x[1] # <<>>

\* build_parser().parse_args(argv): the namespace main works on
\* (--sep only selects how read_csv tokenises the text and --max_rows only
\* how print_df abbreviates long frames; neither changes which rows or
\* which code a run yields, and both are left out)
parse_args(cmd) ==
  [path      |-> cmd.path,
   columns   |-> cmd.columns,
   shape     |-> cmd.shape,
   info      |-> cmd.info,
   describe  |-> IF ~cmd.describe.given THEN PyNone
                 ELSE IF cmd.describe.value = None THEN PyTrue
                 ELSE PyStr(cmd.describe.value[1]),
   head      |-> IF ~cmd.head.given THEN None
                 ELSE IF cmd.head.value = None THEN Some(5)
                 ELSE cmd.head.value,
   tail      |-> cmd.tail.value,
   sample    |-> cmd.sample.value,
   slice     |-> cmd.slice.value,
   to_pickle |-> cmd.to_pickle.value]

\* the namespace before a command line has been parsed
NoArgs ==
  [path |-> <<>>, columns |-> FALSE, shape |-> FALSE, info |-> FALSE,
   describe |-> PyNone, head |-> None, tail |-> None, sample |-> None,
   slice |-> None, to_pickle |-> None]

\* --slice expressions tried in full runs
s_0_2 == <<"0", ":", "2">>

s_rev == <<":", ":", "-", "1">>

s_zero_step == <<":", ":", "0">>

s_four == <<"1", ":", "2", ":", "3", ":", "4">>

s_letter == <<"x">>

MainSliceTexts == {s_0_2, s_rev, s_zero_step, s_four, s_letter}

\* the command lines of full runs
CommandLines ==
  [path      : {data_csv, gone_csv, junk_pkl, list_pkl, out_pkl, out_bin},
   columns   : BOOLEAN,
   shape     : BOOLEAN,
   info      : BOOLEAN,
   describe  : {NotGiven, Bare, With("a"), With("zz")},
   head      : {NotGiven, Bare},
   tail      : {NotGiven, With(1)},
   sample    : {NotGiven, With(2)},
   slice     : {NotGiven} \cup {With(t) : t \in MainSliceTexts},
   to_pickle : {NotGiven, With(out_pkl), With(out_bin), With(nodir_out_pkl)}]

(* ---------------------------------------------------------------------- *)
(* State                                                                   *)
(* ---------------------------------------------------------------------- *)

VARIABLES
  fs,       \* the file system: path -> file contents
  pc,       \* position of the run inside main
  args,     \* the parsed command line
  df,       \* the loaded DataFrame, None before load_dataframe returned one
  stdout,   \* what the run printed to stdout, in order
  stderr,   \* what the run printed to stderr, in order
  rc,       \* the value main returned, None while it has not returned
  written   \* the paths df.to_pickle wrote to in this run

vars == <<fs, pc, args, df, stdout, stderr, rc, written>>

\* one printed block on stdout
Out(kind, column, index, rows) ==
  [kind |-> kind, column |-> column, index |-> index, rows |-> rows]

\* print_df(frame, max_rows): the rows of the frame handed to print
print_df(kind, rows) == Out(kind, "", <<>>, rows)

\* one message on stderr
Err(text, arg, detail, field) ==
  [text |-> text, arg |-> arg, detail |-> detail, field |-> field]

frame == df[1]

Init ==
  /\ \E n \in 0..MaxMainRows : fs = InitialFiles(n)
  /\ pc = "idle"
  /\ args = NoArgs
  /\ df = None
  /\ stdout = <<>>
  /\ stderr = <<>>
  /\ rc = None
  /\ written = {}

\* main, lines 119-121: the command line is parsed
ParseArgs ==
  /\ pc = "idle"
  /\ \E cmd \in CommandLines : args' = parse_args(cmd)
  /\ pc' = "load"
  /\ UNCHANGED <<fs, df, stdout, stderr, rc, written>>

\* main, lines 123-127: load the table or print the error and return 2
DoLoad ==
  /\ pc = "load"
  /\ LET got == load_dataframe(fs, args.path) IN
       IF got.raised
       THEN /\ stderr' = Append(stderr, Err(got.text, got.path, got.detail, got.kind))
            /\ rc' = Some(2)
            /\ pc' = "done"
            /\ df' = df
       ELSE /\ df' = got.df
            /\ pc' = "columns"
            /\ UNCHANGED <<stderr, rc>>
  /\ UNCHANGED <<fs, args, stdout, written>>

\* main, lines 130-132
DoColumns ==
  /\ pc = "columns"
  /\ stdout' = IF args.columns
               THEN Append(stdout, Out("columns", "", <<>>, <<frame.columns>>))
               ELSE stdout
  /\ pc' = "shape"
  /\ UNCHANGED <<fs, args, df, stderr, rc, written>>

\* main, lines 133-134
DoShape ==
  /\ pc = "shape"
  /\ stdout' = IF args.shape
               THEN Append(stdout, Out("shape", "", <<>>,
                                       <<<<Len(frame.rows), Len(frame.columns)>>>>))
               ELSE stdout
  /\ pc' = "info"
  /\ UNCHANGED <<fs, args, df, stderr, rc, written>>

\* main, lines 135-137
DoInfo ==
  /\ pc = "info"
  /\ stdout' = IF args.info
               THEN Append(stdout, Out("info", "", <<>>, <<frame.dtypes>>))
               ELSE stdout
  /\ pc' = "describe"
  /\ UNCHANGED <<fs, args, df, stderr, rc, written>>

\* not_in_columns that finds every name
not_in_columns_never(col, f) == FALSE

\* the test of line 145: col not in df.columns
not_in_columns(col, f) == \A i \in 1..Len(f.columns) : f.columns[i] # col

\* the test of line 138: args.describe is not False
describe_requested(d) == d # PyFalse

\* main, lines 138-149
DoDescribe ==
  /\ pc = "describe"
  /\ IF describe_requested(args.describe)
     THEN IF args.describe = PyTrue \/ args.describe = PyNone
          THEN /\ stdout' = Append(stdout, Out("describe", "", <<>>, <<>>))
               /\ pc' = "head"
               /\ UNCHANGED <<stderr, rc>>
          ELSE LET col == args.describe.val IN
               IF not_in_columns(col, frame)
               THEN /\ stderr' = Append(stderr, Err("Column not found", <<>>, col, ""))
                    /\ rc' = Some(3)
                    /\ pc' = "done"
                    /\ UNCHANGED stdout
               ELSE /\ stdout' = Append(stdout, Out("describe", col, <<>>, <<>>))
                    /\ pc' = "head"
                    /\ UNCHANGED <<stderr, rc>>
     ELSE /\ pc' = "head"
          /\ UNCHANGED <<stdout, stderr, rc>>
  /\ UNCHANGED <<fs, args, df, written>>

\* main, lines 150-151
DoHead ==
  /\ pc = "head"
  /\ stdout' = IF args.head # None
               THEN Append(stdout, print_df("head", head(frame, args.head[1])))
               ELSE stdout
  /\ pc' = "tail"
  /\ UNCHANGED <<fs, args, df, stderr, rc, written>>

\* main, lines 152-153
DoTail ==
  /\ pc = "tail"
  /\ stdout' = IF args.tail # None
               THEN Append(stdout, print_df("tail", tail(frame, args.tail[1])))
               ELSE stdout
  /\ pc' = "sample"
  /\ UNCHANGED <<fs, args, df, stderr, rc, written>>

\* main, lines 154-155: df.sample may raise, and nothing in main catches it
DoSample ==
  /\ pc = "sample"
  /\ IF args.sample = None
     THEN /\ pc' = "slice"
          /\ UNCHANGED stdout
     ELSE IF sample_raises(frame, args.sample[1])
     THEN /\ pc' = "raised"
          /\ UNCHANGED stdout
     ELSE /\ \E s \in sample_choices(frame, args.sample[1]) :
               stdout' = Append(stdout,
                  Out("sample", "", s, [k \in 1..Len(s) |-> frame.rows[s[k] + 1]]))
          /\ pc' = "slice"
  /\ UNCHANGED <<fs, args, df, stderr, rc, written>>

\* main, lines 156-195
DoSlice ==
  /\ pc = "slice"
  /\ IF args.slice = None
     THEN /\ pc' = "default"
          /\ UNCHANGED <<stdout, stderr, rc>>
     ELSE LET s   == args.slice[1]
              exc == slice_error(s, frame)
          IN  IF exc.raised
              THEN /\ stderr' = Append(stderr, Err("Invalid slice", s, exc.text, exc.field))
                   /\ rc' = Some(5)
                   /\ pc' = "done"
                   /\ UNCHANGED stdout
              ELSE LET pos == iloc(frame, s) IN
                   /\ stdout' = Append(stdout,
                        Out("slice", "", pos, [k \in 1..Len(pos) |-> frame.rows[pos[k] + 1]]))
                   /\ rc' = Some(0)
                   /\ pc' = "done"
                   /\ UNCHANGED stderr
  /\ UNCHANGED <<fs, args, df, written>>

\* the test of lines 198-201: no action flag was given
no_action_flag(a) ==
  ~(\/ a.columns \/ a.shape \/ a.info
    \/ describe_truthy(a.describe)
    \/ a.head # None \/ a.tail # None
    \/ a.sample # None \/ a.slice # None
    \/ str_truthy(a.to_pickle))

\* main, lines 197-202
DefaultHead ==
  /\ pc = "default"
  /\ stdout' = IF no_action_flag(args)
               THEN Append(stdout, print_df("default", head(frame, 5)))
               ELSE stdout
  /\ pc' = "to_pickle"
  /\ UNCHANGED <<fs, args, df, stderr, rc, written>>

\* pickled_frame that pickles what --head shows
pickled_frame_head(f) == DataFrame(f.columns, f.dtypes, head(f, 1))

\* the frame line 207 pickles
pickled_frame(f) == f

\* main, lines 204-212
DoToPickle ==
  /\ pc = "to_pickle"
  /\ IF str_truthy(args.to_pickle)
     THEN LET dest == args.to_pickle[1] IN
          IF can_write(dest)
          THEN /\ fs' = [fs EXCEPT ![dest] = to_pickle(pickled_frame(frame))]
               /\ written' = written \cup {dest}
               /\ rc' = Some(0)
               /\ UNCHANGED stderr
          ELSE /\ stderr' = Append(stderr, Err("Failed to save pickle", dest, "OSError", ""))
               /\ rc' = Some(4)
               /\ UNCHANGED <<fs, written>>
     ELSE /\ rc' = Some(0)
          /\ UNCHANGED <<fs, stderr, written>>
  /\ pc' = "done"
  /\ UNCHANGED <<args, df, stdout>>

\* the process ends (main returned or the exception left it); the files stay
Exit ==
  /\ pc \in {"done", "raised"}
  /\ pc' = "idle"
  /\ args' = NoArgs
  /\ df' = None
  /\ stdout' = <<>>
  /\ stderr' = <<>>
  /\ rc' = None
  /\ written' = {}
  /\ UNCHANGED fs

\* the steps of main after the command line is parsed
Run ==
  \/ DoLoad \/ DoColumns \/ DoShape \/ DoInfo \/ DoDescribe \/ DoHead \/ DoTail
  \/ DoSample \/ DoSlice \/ DefaultHead \/ DoToPickle

Next ==
  \/ ParseArgs \/ DoLoad \/ DoColumns \/ DoShape \/ DoInfo \/ DoDescribe \/ DoHead \/ DoTail
  \/ DoSample \/ DoSlice \/ DefaultHead \/ DoToPickle \/ Exit

Spec == Init /\ [][Next]_vars

(* ---------------------------------------------------------------------- *)
(* Runs of "viewdf.py data.csv --slice EXPR" over generated expressions    *)
(* ---------------------------------------------------------------------- *)

\* field texts that are integers
IntegerFields ==
  { <<"0">>, <<"1">>, <<"2">>, <<"3">>, <<"5">>, <<"6">>, <<"7">>, <<"1", "2">>,
    <<"-", "0">>, <<"-", "1">>, <<"-", "3">>, <<"-", "1", "2">> }

\* field texts that are neither empty nor integers
BadFields == { <<"-">>, <<"1", "-">>, <<"x">> }

FieldTexts == {<<>>} \cup IntegerFields \cup BadFields

\* fields used beyond the third position
ExtraFields == { <<>>, <<"1">> }

\* the fields joined with colons
RECURSIVE join(_)
join(fields) ==
  IF Len(fields) = 1 THEN fields[1]
  ELSE fields[1] \o <<":">> \o join(Tail(fields))

\* expressions of one to three fields, and of four to MaxFields fields
SliceTexts ==
  UNION { {join(fs3) : fs3 \in [1..k -> FieldTexts]} : k \in 1..3 }
  \cup
  UNION { {join(fs4) : fs4 \in [1..k -> ExtraFields]} : k \in 4..MaxFields }

SliceCommand(opt) ==
  [path |-> data_csv, columns |-> FALSE, shape |-> FALSE, info |-> FALSE,
   describe |-> NotGiven, head |-> NotGiven, tail |-> NotGiven,
   sample |-> NotGiven, slice |-> opt, to_pickle |-> NotGiven]

InitSlice ==
  /\ \E n \in 0..MaxRows : fs = InitialFiles(n)
  /\ \E opt \in {NotGiven} \cup {With(t) : t \in SliceTexts} :
       args = parse_args(SliceCommand(opt))
  /\ pc = "load"
  /\ df = None
  /\ stdout = <<>>
  /\ stderr = <<>>
  /\ rc = None
  /\ written = {}

SliceSpec == InitSlice /\ [][Run]_vars

(* ---------------------------------------------------------------------- *)
(* What a range expression denotes, stated apart from the program          *)
(* ---------------------------------------------------------------------- *)

\* positions of the colons of s
ColonsOf(s) == {i \in 1..Len(s) : s[i] = ":"}

FieldCount(s) == Cardinality(ColonsOf(s)) + 1

\* position of the k-th colon; 0 before the first field, Len(s)+1 after the last
ColonAt(s, k) ==
  IF k = 0 THEN 0
  ELSE IF k > Cardinality(ColonsOf(s)) THEN Len(s) + 1
  ELSE CHOOSE i \in ColonsOf(s) : Cardinality({j \in ColonsOf(s) : j < i}) = k - 1

\* the k-th colon-separated field of s
FieldOf(s, k) == SubSeq(s, ColonAt(s, k - 1) + 1, ColonAt(s, k) - 1)

\* the integer a field text of IntegerFields stands for
FieldValue(f) ==
  CASE f = <<"0">> -> 0 [] f = <<"1">> -> 1 [] f = <<"2">> -> 2 [] f = <<"3">> -> 3
    [] f = <<"5">> -> 5 [] f = <<"6">> -> 6 [] f = <<"7">> -> 7
    [] f = <<"1", "2">> -> 12 [] f = <<"4">> -> 4
    [] f = <<"-", "0">> -> 0 [] f = <<"-", "1">> -> 0 - 1
    [] f = <<"-", "3">> -> 0 - 3 [] f = <<"-", "1", "2">> -> 0 - 12

\* the integer field texts of generated and full-run expressions
KnownIntegers == IntegerFields \cup {<<"4">>}

\* at most three fields, each empty or an integer
WellFormed(s) ==
  /\ FieldCount(s) <= 3
  /\ \A k \in 1..FieldCount(s) : FieldOf(s, k) \in {<<>>} \cup KnownIntegers

\* field k as an optional integer
OptField(s, k) == IF FieldOf(s, k) = <<>> THEN None ELSE Some(FieldValue(FieldOf(s, k)))

StartOf(s) == IF FieldCount(s) = 1 THEN None ELSE OptField(s, 1)

StopOf(s) == IF FieldCount(s) = 1 THEN OptField(s, 1) ELSE OptField(s, 2)

StepOf(s) == IF FieldCount(s) < 3 \/ FieldOf(s, 3) = <<>> THEN 1 ELSE FieldValue(FieldOf(s, 3))

\* a given bound: negative counts from the end, then clamped
Effective(v, n, step) ==
  LET off == IF v < 0 THEN v + n ELSE v
      lo  == IF step > 0 THEN 0 ELSE 0 - 1
      hi  == IF step > 0 THEN n ELSE n - 1
  IN  IF off < lo THEN lo ELSE IF off > hi THEN hi ELSE off

\* first position of the range
FirstOf(s, n) ==
  IF StartOf(s) = None THEN (IF StepOf(s) > 0 THEN 0 ELSE n - 1)
  ELSE Effective(StartOf(s)[1], n, StepOf(s))

\* exclusive end of the range; -1 stands for "before row 0"
EndOf(s, n) ==
  IF StopOf(s) = None THEN (IF StepOf(s) > 0 THEN n ELSE 0 - 1)
  ELSE Effective(StopOf(s)[1], n, StepOf(s))

\* number of positions first, first+step, ... before end
CountOf(s, n) ==
  LET a == FirstOf(s, n)  b == EndOf(s, n)  st == StepOf(s) IN
  IF st > 0 THEN (IF b > a THEN ((b - a - 1) \div st) + 1 ELSE 0)
  ELSE (IF a > b THEN ((a - b - 1) \div (0 - st)) + 1 ELSE 0)

\* the positions the expression denotes over n rows, in order
Denoted(s, n) == [k \in 1..CountOf(s, n) |-> FirstOf(s, n) + (k - 1) * StepOf(s)]

\* the run returned from the --slice branch
SliceDone ==
  /\ pc = "done" /\ df # None /\ args.slice # None
  /\ rc # Some(3)

RowCount == Len(frame.rows)

LastOut == stdout[Len(stdout)]

LastErr == stderr[Len(stderr)]

\* some block printed by the run has this kind
Printed(kind) == \E i \in 1..Len(stdout) : stdout[i].kind = kind

\* the expression of the run, and the expression made of the given fields
Expr == args.slice[1]

(* ---------------------------------------------------------------------- *)
(* Claims on --slice, checked under SliceSpec                              *)
(* ---------------------------------------------------------------------- *)

\* C2: for every row count and every well-formed expression with a non-zero
\* step, the rows printed by --slice are exactly the positional range the
\* expression denotes (one field is the exclusive stop, two are start:stop,
\* three are start:stop:step, an empty field takes its default), in the order
\* start, start+step, ...; with 10 rows "5" gives 0..4, "0:2" gives 0,1,
\* "::2" gives 0,2,4,6,8, "7::" and "-3::" give 7,8,9, "1:6:2" gives 1,3,5.
C2_SliceDenotes ==
  (SliceDone /\ WellFormed(Expr) /\ StepOf(Expr) # 0) =>
    /\ stdout # <<>>
    /\ LastOut.kind = "slice"
    /\ LastOut.index = Denoted(Expr, RowCount)
    /\ LastOut.rows = [k \in 1..Len(LastOut.index) |-> frame.rows[LastOut.index[k] + 1]]
    /\ RowCount = 10 =>
         /\ Expr = <<"5">> => LastOut.index = <<0, 1, 2, 3, 4>>
         /\ Expr = <<"0", ":", "2">> => LastOut.index = <<0, 1>>
         /\ Expr = <<":", ":", "2">> => LastOut.index = <<0, 2, 4, 6, 8>>
         /\ Expr = <<"7", ":", ":">> => LastOut.index = <<7, 8, 9>>
         /\ Expr = <<"-", "3", ":", ":">> => LastOut.index = <<7, 8, 9>>
         /\ Expr = <<"1", ":", "6", ":", "2">> => LastOut.index = <<1, 3, 5>>

\* C2 witness: "1:6:2" over 10 rows printed rows 1, 3, 5
C2_Witness ==
  /\ SliceDone /\ RowCount = 10
  /\ Expr = <<"1", ":", "6", ":", "2">>
  /\ rc = Some(0)
  /\ LastOut.index = <<1, 3, 5>>

\* C3: an expression with more than three fields, or with a non-empty field
\* that is not an integer, is rejected: main returns 5, stderr gets an
\* "Invalid slice" message naming the expression, no sliced rows are printed.
C3_MalformedRejected ==
  (SliceDone /\ ~WellFormed(Expr)) =>
    /\ rc = Some(5)
    /\ stderr # <<>>
    /\ LastErr.text = "Invalid slice"
    /\ LastErr.arg = Expr
    /\ ~Printed("slice")

\* C3 witness: the four-field expression "1:::1" was rejected with a table of three rows
C3_Witness ==
  /\ SliceDone /\ RowCount = 3
  /\ Expr = <<"1", ":", ":", ":", "1">>
  /\ rc = Some(5)
  /\ LastErr.text = "Invalid slice"

\* C4: a three-field expression whose step is 0 is rejected whatever the row
\* count (0 included), start and stop: main returns 5, never 0, and prints no
\* sliced rows.
C4_ZeroStepRejected ==
  (SliceDone /\ WellFormed(Expr) /\ FieldCount(Expr) = 3 /\ StepOf(Expr) = 0) =>
    /\ rc = Some(5)
    /\ LastErr.text = "Invalid slice"
    /\ ~Printed("slice")

\* C4 witness: "-3:5:0" was rejected on a table with no rows
C4_Witness ==
  /\ SliceDone /\ RowCount = 0
  /\ Expr = <<"-", "3", ":", "5", ":", "0">>
  /\ rc = Some(5)

\* C7: for every row count and every well-formed expression with a non-zero
\* step the run returns 0 and every printed position is a valid row position,
\* each at most once; negative bounds count from the end and out-of-range
\* bounds are clamped, so all positions lie between the effective start and
\* the effective stop, and an empty effective range prints zero rows.
C7_PositionsValid ==
  (SliceDone /\ WellFormed(Expr) /\ StepOf(Expr) # 0) =>
    /\ rc = Some(0)
    /\ stderr = <<>>
    /\ LastOut.kind = "slice"
    /\ \A k \in 1..Len(LastOut.index) : LastOut.index[k] \in 0..(RowCount - 1)
    /\ \A j, k \in 1..Len(LastOut.index) : j # k => LastOut.index[j] # LastOut.index[k]
    /\ StepOf(Expr) > 0 =>
         /\ \A k \in 1..Len(LastOut.index) :
              FirstOf(Expr, RowCount) <= LastOut.index[k] /\ LastOut.index[k] < EndOf(Expr, RowCount)
         /\ (FirstOf(Expr, RowCount) >= EndOf(Expr, RowCount)) <=> (LastOut.index = <<>>)
    /\ StepOf(Expr) < 0 =>
         /\ \A k \in 1..Len(LastOut.index) :
              FirstOf(Expr, RowCount) >= LastOut.index[k] /\ LastOut.index[k] > EndOf(Expr, RowCount)
         /\ (FirstOf(Expr, RowCount) <= EndOf(Expr, RowCount)) <=> (LastOut.index = <<>>)

\* C7 witness: "12:-12:-1" over 10 rows, both bounds out of range, printed
\* rows 9 down to 0
C7_Witness ==
  /\ SliceDone /\ RowCount = 10
  /\ Expr = <<"1", "2", ":", "-", "1", "2", ":", "-", "1">>
  /\ rc = Some(0)
  /\ LastOut.index = <<9, 8, 7, 6, 5, 4, 3, 2, 1, 0>>

(* ---------------------------------------------------------------------- *)
(* Claims on whole runs, checked under Spec                                *)
(* ---------------------------------------------------------------------- *)

\* main is over: it returned, or an exception left it
Finished == pc \in {"done", "raised"}

\* the file named on the command line cannot be loaded as a table
Unloadable ==
  LET file == fs[args.path] IN
  IF endswith(args.path, dot_pkl)
  THEN ~(file.fmt = "pickle" /\ file.type = "DataFrame")
  ELSE ~(file.fmt = "text" /\ file.table # None)

\* --describe named a column the loaded table does not have
ColumnAbsent ==
  /\ df # None
  /\ args.describe.kind = "str"
  /\ args.describe.val \notin {frame.columns[i] : i \in 1..Len(frame.columns)}

\* some message on stderr has this text
Reported(text) == \E i \in 1..Len(stderr) : stderr[i].text = text

\* C1: every run that gets past argument parsing returns one of 0, 2, 3, 4, 5;
\* 2 only when loading failed, 3 only when --describe named an absent column,
\* 4 only when the pickle write failed, 5 only when --slice was rejected, and
\* 0 only when none of these happened.
C1_ExitCodes ==
  Finished =>
    /\ rc \in {Some(0), Some(2), Some(3), Some(4), Some(5)}
    /\ rc = Some(2) => (df = None /\ Reported("Failed to read"))
    /\ rc = Some(3) => (ColumnAbsent /\ Reported("Column not found"))
    /\ rc = Some(4) => Reported("Failed to save pickle")
    /\ rc = Some(5) => (args.slice # None /\ Reported("Invalid slice"))
    /\ rc = Some(0) => stderr = <<>>

\* C5: when --describe names a column absent from the loaded table, main
\* returns 3 with a "not found" message naming the column, prints no
\* statistics for it, and performs none of head, tail, sample, slice, default
\* head or the pickle write.
C5_MissingColumnTerminal ==
  (ColumnAbsent /\ pc \notin {"columns", "shape", "info", "describe"}) =>
    /\ pc = "done"
    /\ rc = Some(3)
    /\ stderr = <<Err("Column not found", <<>>, args.describe.val, "")>>
    /\ \A k \in {"describe", "head", "tail", "sample", "slice", "default"} : ~Printed(k)
    /\ written = {}

\* C5 witness: "--describe zz" with --head, --slice and --to-pickle returned 3
C5_Witness ==
  /\ pc = "done" /\ ColumnAbsent
  /\ args.head # None /\ args.slice # None /\ args.to_pickle = Some(out_pkl)
  /\ args.columns
  /\ rc = Some(3)

\* C6: ingestion fully succeeds or yields no table: when the source cannot be
\* read or parsed, or a .pkl source holds something that is not a DataFrame,
\* main returns 2 with a "Failed to read" message (naming the decoded kind for
\* a non-DataFrame pickle), prints no action output and writes no pickle,
\* whatever other flags were given.
C6_LoadFailureTerminal ==
  /\ (pc \notin {"idle", "load"} /\ Unloadable) =>
       /\ pc = "done"
       /\ rc = Some(2)
       /\ df = None
       /\ stdout = <<>>
       /\ written = {}
       /\ Len(stderr) = 1
       /\ stderr[1].text = "Failed to read"
       /\ stderr[1].arg = args.path
       /\ (endswith(args.path, dot_pkl) /\ fs[args.path].fmt = "pickle") =>
            /\ stderr[1].field = fs[args.path].type
            /\ stderr[1].detail = "Pickle contains, not a DataFrame"
  /\ (pc \notin {"idle", "load"} /\ ~Unloadable) => df = fs[args.path].table

\* C6 witness: list.pkl with --head and --to-pickle returned 2
C6_Witness ==
  /\ pc = "done" /\ args.path = list_pkl
  /\ args.head # None /\ args.to_pickle = Some(out_pkl)
  /\ rc = Some(2)
  /\ stderr[1].field = "list"

\* C8: no inspection action changes the loaded table: in every state of a run
\* after loading, df is the table the source holds; every file --to-pickle
\* wrote holds that whole table; and loading a written .pkl yields a table
\* with the same columns, order, types and cells (every pickled DataFrame in
\* the file system equals the table of data.csv it came from).
C8_TableUnchanged ==
  /\ (pc \notin {"idle", "load"} /\ df # None) =>
       /\ df = load_dataframe(fs, args.path).df
       /\ \A dest \in written :
            /\ fs[dest] = PickleFile("DataFrame", df)
            /\ endswith(dest, dot_pkl) =>
                 load_dataframe(fs, dest) =
                   [raised |-> FALSE, text |-> "", path |-> dest, detail |-> "",
                    kind |-> "", df |-> df]
  /\ \A p \in Paths :
       (fs[p].fmt = "pickle" /\ fs[p].type = "DataFrame") => fs[p].table = fs[data_csv].table

\* C8 witness: a run that loaded the out.pkl an earlier run wrote, printed
\* head, tail and a sample, and wrote the table again
C8_Witness ==
  /\ pc = "done" /\ args.path = out_pkl /\ df # None
  /\ Len(frame.rows) = 2
  /\ Printed("head") /\ Printed("tail") /\ Printed("sample")
  /\ args.columns /\ args.shape /\ args.info
  /\ written = {out_bin}
  /\ rc = Some(0)

\* C9: whenever main is run with --to-pickle DEST, the load succeeds and main
\* returns 0, the pickle write to DEST was performed in that run, for every
\* combination of the other flags, --slice with a valid expression included.
C9_PickleWritten ==
  (pc = "done" /\ str_truthy(args.to_pickle) /\ df # None /\ rc = Some(0)) =>
    /\ args.to_pickle[1] \in written
    /\ fs[args.to_pickle[1]].fmt = "pickle"

\* C10: describe output is produced if and only if --describe is on the
\* command line (args.describe is None exactly when the flag is absent); a
\* run with only a path prints just the first 5 rows.
C10_DescribeOnlyOnRequest ==
  (pc = "done" /\ df # None /\ rc # Some(3)) =>
    /\ Printed("describe") <=> args.describe # PyNone
    /\ args = parse_args([path |-> args.path, columns |-> FALSE, shape |-> FALSE,
                          info |-> FALSE, describe |-> NotGiven, head |-> NotGiven,
                          tail |-> NotGiven, sample |-> NotGiven, slice |-> NotGiven,
                          to_pickle |-> NotGiven])
         => stdout = <<print_df("default", head(frame, 5))>>

====
